---- MODULE Spec2Model ----
(***************************************************************************)
(* Model of the fake-news-detector backend: the /predict handler           *)
(* (src/main.py), the source-based fact check and its reconciliation       *)
(* policy (src/utils/fact_check.py) and the CSV logger                     *)
(* (src/utils/logger.py).                                                  *)
(*                                                                         *)
(* Strings are sequences of Unicode code points, so that lower(), strip(), *)
(* substring containment and the regular expressions of the source are     *)
(* computed, not assumed.  None is the one-element sequence <<-1>> and a   *)
(* key that a dict does not hold is <<-2>>.  A float is the integer number *)
(* of thousandths it denotes (0.6 is 600).                                 *)
(***************************************************************************)
EXTENDS Integers, Sequences, FiniteSets, TLC

VARIABLES
  \* predict_news and perform_agent_fact_check, the request in progress
  pc,                       \* the await the request is suspended at
  req_no,                   \* the number of the request
  news_text, lang_detected, lang_code, label, confidence,
  fact_checks_formatted, newsapi_results, source_synthesis_prompt,
  a_model_label, a_model_confidence, agent_fact_check_result, log_entry,
  response,                 \* what predict_news has returned
  calls,                    \* the external calls made so far, in order
  received,                 \* the answer the last connector received
  llm_response,             \* what the LLM answered
  \* log_prediction: the file, and each request that logs
  log_file, log_on_disk, w_pc, w_file_exists, w_req,
  \* decide_final_verdict called on its own (SpecVerdict)
  d_pc, d_model_label, d_model_confidence, d_fact_checks, d_detected_lang,
  d_counts, d_verdict

reqVars == <<pc, req_no, news_text, lang_detected, lang_code, label, confidence,
             fact_checks_formatted, newsapi_results, source_synthesis_prompt,
             a_model_label, a_model_confidence, agent_fact_check_result, log_entry,
             response, calls, received, llm_response>>

logVars == <<log_file, log_on_disk, w_pc, w_file_exists, w_req>>

verdictVars == <<d_pc, d_model_label, d_model_confidence, d_fact_checks,
                 d_detected_lang, d_counts, d_verdict>>

vars == <<reqVars, logVars, verdictVars>>

----------------------------------------------------------------------------
(* Python values *)

None == <<-1>>

Absent == <<-2>>

\* dict.get(key, default)
Get(d, key, default) == IF d[key] = Absent THEN default ELSE d[key]

IsSpace(c) == c \in {9, 10, 11, 12, 13, 28, 29, 30, 31, 32, 133, 160}

\* str.lower() on one code point: ASCII and Latin-1 capitals have a
\* lower-case form; Sinhala and Tamil have no case.
LowerChar(c) ==
  IF (c >= 65 /\ c <= 90) \/ (c >= 192 /\ c <= 222 /\ c # 215) THEN c + 32 ELSE c

Lower(s) == [i \in 1..Len(s) |-> LowerChar(s[i])]

\* str.strip()
RECURSIVE LStrip(_)
LStrip(s) == IF s # <<>> /\ IsSpace(Head(s)) THEN LStrip(Tail(s)) ELSE s

RECURSIVE RStrip(_)
RStrip(s) ==
  IF s # <<>> /\ IsSpace(s[Len(s)]) THEN RStrip(SubSeq(s, 1, Len(s) - 1)) ELSE s

Strip(s) == RStrip(LStrip(s))

\* `word in text` for two str
Contains(text, word) ==
  \/ word = <<>>
  \/ \E i \in 1..(Len(text) - Len(word) + 1) :
       /\ text[i] = word[1]
       /\ SubSeq(text, i, i + Len(word) - 1) = word

\* any(word in text for word in words)
AnyIn(words, text) == \E k \in 1..Len(words) : Contains(text, words[k])

----------------------------------------------------------------------------
(* src/utils/fact_check.py: TRUSTED_PUBLISHERS and VERDICT_KEYWORDS *)

TRUSTED_PUBLISHERS ==
  {
    <<66,66,67>>,  \* "BBC"
    <<82,101,117,116,101,114,115>>,  \* "Reuters"
    <<65,80,32,78,101,119,115>>,  \* "AP News"
    <<85,83,65,32,84,111,100,97,121>>,  \* "USA Today"
    <<70,97,99,116,67,104,101,99,107,46,111,114,103>>,  \* "FactCheck.org"
    <<70,117,108,108,32,70,97,99,116>>,  \* "Full Fact"
    <<83,110,111,112,101,115>>,  \* "Snopes"
    <<83,99,105,101,110,99,101,32,70,101,101,100,98,97,99,107>>,  \* "Science Feedback"
    <<65,65,80>>,  \* "AAP"
    <<80,111,108,105,116,105,70,97,99,116>>,  \* "PolitiFact"
    <<84,104,101,32,65,115,115,111,99,105,97,116,101,100,32,80,114,101,115,115>>,  \* "The Associated Press"
    <<65,115,115,111,99,105,97,116,101,100,32,80,114,101,115,115>>,  \* "Associated Press"
    <<70,97,99,116,67,104,101,99,107,46,108,107>>,  \* "FactCheck.lk"
    <<72,97,115,104,116,97,103,32,71,101,110,101,114,97,116,105,111,110>>,  \* "Hashtag Generation"
    <<65,100,97,32,68,101,114,97,110,97>>,  \* "Ada Derana"
    <<71,114,111,117,110,100,118,105,101,119,115>>,  \* "Groundviews"
    <<83,114,105,32,76,97,110,107,97,32,70,97,99,116,67,104,101,99,107>>,  \* "Sri Lanka FactCheck"
    <<78,101,119,115,32,70,105,114,115,116>>,  \* "News First"
    <<68,101,114,97,110,97>>,  \* "Derana"
    <<77,97,119,98,105,109,97>>,  \* "Mawbima"
    <<76,97,110,107,97,100,101,101,112,97>>,  \* "Lankadeepa"
    <<68,105,118,97,105,110,97>>,  \* "Divaina"
    <<83,105,108,117,109,105,110,97>>,  \* "Silumina"
    <<66,79,79,77,32,84,97,109,105,108>>,  \* "BOOM Tamil"
    <<70,97,99,116,32,67,114,101,115,99,101,110,100,111,32,84,97,109,105,108>>,  \* "Fact Crescendo Tamil"
    <<86,105,115,104,118,97,115,32,78,101,119,115,32,84,97,109,105,108>>,  \* "Vishvas News Tamil"
    <<89,111,117,116,117,114,110,46,105,110>>,  \* "Youturn.in"
    <<78,101,119,115,99,104,101,99,107,101,114,32,84,97,109,105,108>>,  \* "Newschecker Tamil"
    <<80,117,116,104,105,121,97,32,84,104,97,108,97,105,109,117,114,97,105>>,  \* "Puthiya Thalaimurai"
    <<68,97,105,108,121,32,84,104,97,110,116,104,105>>,  \* "Daily Thanthi"
    <<72,105,110,100,117,32,84,97,109,105,108>>,  \* "Hindu Tamil"
    <<68,105,110,97,109,97,108,97,114>>,  \* "Dinamalar"
    <<86,105,114,97,107,101,115,97,114,105>>  \* "Virakesari"
  }

Keywords_en_fake ==
  <<
     <<102,97,108,115,101>>,  \* "false"
     <<102,97,107,101>>,  \* "fake"
     <<109,105,115,108,101,97,100,105,110,103>>,  \* "misleading"
     <<110,111,116,32,116,114,117,101>>,  \* "not true"
     <<100,101,98,117,110,107,101,100>>,  \* "debunked"
     <<105,110,99,111,114,114,101,99,116>>,  \* "incorrect"
     <<104,111,97,120>>,  \* "hoax"
     <<100,105,115,105,110,102,111,114,109,97,116,105,111,110>>,  \* "disinformation"
     <<117,110,116,114,117,101>>  \* "untrue"
  >>

Keywords_en_real ==
  <<
     <<116,114,117,101>>,  \* "true"
     <<99,111,114,114,101,99,116>>,  \* "correct"
     <<97,99,99,117,114,97,116,101>>,  \* "accurate"
     <<118,101,114,105,102,105,101,100>>,  \* "verified"
     <<115,117,112,112,111,114,116,101,100>>,  \* "supported"
     <<102,97,99,116>>,  \* "fact"
     <<114,101,97,108>>,  \* "real"
     <<97,117,116,104,101,110,116,105,99>>  \* "authentic"
  >>

Keywords_en_uncertain ==
  <<
     <<117,110,112,114,111,118,101,110>>,  \* "unproven"
     <<117,110,118,101,114,105,102,105,101,100>>,  \* "unverified"
     <<105,110,115,117,102,102,105,99,105,101,110,116,32,101,118,105,100,101,110,99,101>>,  \* "insufficient evidence"
     <<100,105,115,112,117,116,101,100>>,  \* "disputed"
     <<110,101,101,100,115,32,109,111,114,101,32,105,110,102,111>>  \* "needs more info"
  >>

Keywords_si_fake ==
  <<
     <<3510,3548,3515,3540>>,  \* "U+0DB6 U+0DDC U+0DBB U+0DD4"
     <<3520,3530,8205,3514,3535,3490>>,  \* "U+0DC0 U+0DCA U+200D U+0DBA U+0DCF U+0DA2"
     <<3520,3536,3515,3503,3538>>,  \* "U+0DC0 U+0DD0 U+0DBB U+0DAF U+0DD2"
     <<3512,3538,3501,3530,8205,3514,3535>>,  \* "U+0DB8 U+0DD2 U+0DAD U+0DCA U+200D U+0DBA U+0DCF"
     <<3508,3503,3505,3512,3530,32,3520,3538,3515,3524,3538,3501>>,  \* "U+0DB4 U+0DAF U+0DB1 U+0DB8 U+0DCA U+0020 U+0DC0 U+0DD2 U+0DBB U+0DC4 U+0DD2 U+0DAD"
     <<3461,3523,3501,3530,8205,3514>>,  \* "U+0D85 U+0DC3 U+0DAD U+0DCA U+200D U+0DBA"
     <<3482,3525>>,  \* "U+0D9A U+0DC5"
     <<3505,3548,3520,3546>>,  \* "U+0DB1 U+0DDC U+0DC0 U+0DDA"
     <<3505,3548,3512,3487,32,3514,3520,3505>>  \* "U+0DB1 U+0DDC U+0DB8 U+0D9F U+0020 U+0DBA U+0DC0 U+0DB1"
  >>

Keywords_si_real ==
  <<
     <<3523,3536,3510,3537>>,  \* "U+0DC3 U+0DD0 U+0DB6 U+0DD1"
     <<3505,3538,3520,3536,3515,3503,3538>>,  \* "U+0DB1 U+0DD2 U+0DC0 U+0DD0 U+0DBB U+0DAF U+0DD2"
     <<3501,3524,3520,3540,3515,3540,32,3482,3515,3505,32,3517,3503>>,  \* "U+0DAD U+0DC4 U+0DC0 U+0DD4 U+0DBB U+0DD4 U+0020 U+0D9A U+0DBB U+0DB1 U+0020 U+0DBD U+0DAF"
     <<3523,3501,3530,8205,3514>>,  \* "U+0DC3 U+0DAD U+0DCA U+200D U+0DBA"
     <<3523,3524,3501,3538,3482>>,  \* "U+0DC3 U+0DC4 U+0DAD U+0DD2 U+0D9A"
     <<3520,3535,3515,3530,3501,3535,3520>>,  \* "U+0DC0 U+0DCF U+0DBB U+0DCA U+0DAD U+0DCF U+0DC0"
     <<3482,3538,3523,3538,3503,3540,32,3520,3545,3505,3523,3482,3530,32,3505,3536,3501>>  \* "U+0D9A U+0DD2 U+0DC3 U+0DD2 U+0DAF U+0DD4 U+0020 U+0DC0 U+0DD9 U+0DB1 U+0DC3 U+0D9A U+0DCA U+0020 U+0DB1 U+0DD0 U+0DAD"
  >>

Keywords_si_uncertain ==
  <<
     <<3461,3520,3538,3505,3538,3521,3530,3488,3538,3501>>,  \* "U+0D85 U+0DC0 U+0DD2 U+0DB1 U+0DD2 U+0DC1 U+0DCA U+0DA0 U+0DD2 U+0DAD"
     <<3501,3524,3520,3540,3515,3540,32,3505,3548,3482,3525>>,  \* "U+0DAD U+0DC4 U+0DC0 U+0DD4 U+0DBB U+0DD4 U+0020 U+0DB1 U+0DDC U+0D9A U+0DC5"
     <<3523,3535,3482,3530,3522,3538,32,3505,3548,3512,3536,3501,3538>>,  \* "U+0DC3 U+0DCF U+0D9A U+0DCA U+0DC2 U+0DD2 U+0020 U+0DB1 U+0DDC U+0DB8 U+0DD0 U+0DAD U+0DD2"
     <<3520,3538,3520,3535,3503,3514,3495,32,3501,3540,3497,3540,32,3503,3540,3505,3530>>  \* "U+0DC0 U+0DD2 U+0DC0 U+0DCF U+0DAF U+0DBA U+0DA7 U+0020 U+0DAD U+0DD4 U+0DA9 U+0DD4 U+0020 U+0DAF U+0DD4 U+0DB1 U+0DCA"
  >>

Keywords_ta_fake ==
  <<
     <<2986,3018,2991,3021>>,  \* "U+0BAA U+0BCA U+0BAF U+0BCD"
     <<2986,3019,2994,3007>>,  \* "U+0BAA U+0BCB U+0BB2 U+0BBF"
     <<2980,2997,2993,3006,2985>>,  \* "U+0BA4 U+0BB5 U+0BB1 U+0BBE U+0BA9"
     <<2984,2990,3021,2986,3007,2965,3021,2965,3016,2991,2993,3021,2993>>,  \* "U+0BA8 U+0BAE U+0BCD U+0BAA U+0BBF U+0B95 U+0BCD U+0B95 U+0BC8 U+0BAF U+0BB1 U+0BCD U+0BB1"
     <<2970,2992,3007,2991,3007,2994,3021,2994,3006,2980>>,  \* "U+0B9A U+0BB0 U+0BBF U+0BAF U+0BBF U+0BB2 U+0BCD U+0BB2 U+0BBE U+0BA4"
     <<2959,2990,3006,2993,3021,2993,3009>>,  \* "U+0B8F U+0BAE U+0BBE U+0BB1 U+0BCD U+0BB1 U+0BC1"
     <<2953,2979,3021,2990,3016,2991,2994,3021,2994>>  \* "U+0B89 U+0BA3 U+0BCD U+0BAE U+0BC8 U+0BAF U+0BB2 U+0BCD U+0BB2"
  >>

Keywords_ta_real ==
  <<
     <<2953,2979,3021,2990,3016>>,  \* "U+0B89 U+0BA3 U+0BCD U+0BAE U+0BC8"
     <<2970,2992,3007,2991,3006,2985,2980,3009>>,  \* "U+0B9A U+0BB0 U+0BBF U+0BAF U+0BBE U+0BA9 U+0BA4 U+0BC1"
     <<2953,2993,3009,2980,3007,2986,3021,2986,2975,3009,2980,3021,2980,2986,3021,2986,2975,3021,2975>>,  \* "U+0B89 U+0BB1 U+0BC1 U+0BA4 U+0BBF U+0BAA U+0BCD U+0BAA U+0B9F U+0BC1 U+0BA4 U+0BCD U+0BA4 U+0BAA U+0BCD U+0BAA U+0B9F U+0BCD U+0B9F"
     <<2970,2992,3007,2986,3006,2992,3021,2965,3021,2965,2986,3021,2986,2975,3021,2975,2980,3009>>,  \* "U+0B9A U+0BB0 U+0BBF U+0BAA U+0BBE U+0BB0 U+0BCD U+0B95 U+0BCD U+0B95 U+0BAA U+0BCD U+0BAA U+0B9F U+0BCD U+0B9F U+0BA4 U+0BC1"
     <<2953,2993,3009,2980,3007>>,  \* "U+0B89 U+0BB1 U+0BC1 U+0BA4 U+0BBF"
     <<2970,2992,3007,2991,3006,2985,2980,3009>>  \* "U+0B9A U+0BB0 U+0BBF U+0BAF U+0BBE U+0BA9 U+0BA4 U+0BC1"
  >>

Keywords_ta_uncertain ==
  <<
     <<2953,2993,3009,2980,3007,2991,2993,3021,2993>>,  \* "U+0B89 U+0BB1 U+0BC1 U+0BA4 U+0BBF U+0BAF U+0BB1 U+0BCD U+0BB1"
     <<2984,3007,2992,3010,2986,3007,2965,3021,2965,2986,3021,2986,2975,3006,2980>>,  \* "U+0BA8 U+0BBF U+0BB0 U+0BC2 U+0BAA U+0BBF U+0B95 U+0BCD U+0B95 U+0BAA U+0BCD U+0BAA U+0B9F U+0BBE U+0BA4"
     <<2986,3019,2980,3009,2990,3006,2985,32,2950,2980,3006,2992,2969,3021,2965,2995,3021,32,2951,2994,3021,2994,3016>>,  \* "U+0BAA U+0BCB U+0BA4 U+0BC1 U+0BAE U+0BBE U+0BA9 U+0020 U+0B86 U+0BA4 U+0BBE U+0BB0 U+0B99 U+0BCD U+0B95 U+0BB3 U+0BCD U+0020 U+0B87 U+0BB2 U+0BCD U+0BB2 U+0BC8"
     <<2970,2984,3021,2980,3015,2965,2980,3021,2980,3007,2993,3021,2965,3009,2992,3007,2991>>  \* "U+0B9A U+0BA8 U+0BCD U+0BA4 U+0BC7 U+0B95 U+0BA4 U+0BCD U+0BA4 U+0BBF U+0BB1 U+0BCD U+0B95 U+0BC1 U+0BB0 U+0BBF U+0BAF"
  >>

KeywordLangs == {"en", "si", "ta"}

VERDICT_KEYWORDS(lang) ==
  CASE lang = "en" -> [fake |-> Keywords_en_fake, real |-> Keywords_en_real,
                       uncertain |-> Keywords_en_uncertain]
    [] lang = "si" -> [fake |-> Keywords_si_fake, real |-> Keywords_si_real,
                       uncertain |-> Keywords_si_uncertain]
    [] lang = "ta" -> [fake |-> Keywords_ta_fake, real |-> Keywords_ta_real,
                       uncertain |-> Keywords_ta_uncertain]

\* VERDICT_KEYWORDS.get(detected_lang, VERDICT_KEYWORDS["en"])
CurrentKeywords(detected_lang) ==
  IF detected_lang \in KeywordLangs THEN VERDICT_KEYWORDS(detected_lang)
  ELSE VERDICT_KEYWORDS("en")

----------------------------------------------------------------------------
(* src/utils/fact_check.py: decide_final_verdict *)

UncertainBelow == 600

NoEvidenceBelow == 800

\* (review.get("review_text", "") + " " + review.get("claim", "")).lower()
ReviewText(review) ==
  Lower(Get(review, "review_text", <<>>) \o <<32>> \o Get(review, "claim", <<>>))

\* VeracityFound with the real keywords tested before the fake ones
VeracityFound_RealFirst(text, current_keywords) ==
  IF AnyIn(current_keywords.real, text) THEN "real"
  ELSE IF AnyIn(current_keywords.fake, text) THEN "fake"
  ELSE IF AnyIn(current_keywords.uncertain, text) THEN "uncertain"
  ELSE "unknown"

\* the if / elif chain that sets veracity_found
VeracityFound(text, current_keywords) ==
  IF AnyIn(current_keywords.fake, text) THEN "fake"
  ELSE IF AnyIn(current_keywords.real, text) THEN "real"
  ELSE IF AnyIn(current_keywords.uncertain, text) THEN "uncertain"
  ELSE "unknown"

\* review.get("publisher", "").strip() in TRUSTED_PUBLISHERS
IsTrusted(review) == Strip(Get(review, "publisher", <<>>)) \in TRUSTED_PUBLISHERS

\* one pass of the loop body: the three counters after `review`
CountReview(counts, review, detected_lang) ==
  LET veracity_found ==
        VeracityFound(ReviewText(review), CurrentKeywords(detected_lang))
  IN  IF IsTrusted(review) /\ veracity_found \in {"real", "fake", "uncertain"}
      THEN [counts EXCEPT ![veracity_found] = @ + 1]
      ELSE counts

\* the for loop over fact_checks
RECURSIVE TrustedCounts(_, _, _)
TrustedCounts(counts, fact_checks, detected_lang) ==
  IF fact_checks = <<>> THEN counts
  ELSE TrustedCounts(CountReview(counts, Head(fact_checks), detected_lang),
                     Tail(fact_checks), detected_lang)

ZeroCounts == [real |-> 0, fake |-> 0, uncertain |-> 0]

\* str + None and None.strip() raise inside the loop
ReviewRaises(review) ==
  \/ Get(review, "review_text", <<>>) = None
  \/ Get(review, "claim", <<>>) = None
  \/ Get(review, "publisher", <<>>) = None

DecideRaises(fact_checks) ==
  \E i \in 1..Len(fact_checks) : ReviewRaises(fact_checks[i])

\* FinalLogic with the consensus rules tested before the conflict rule
FinalLogic_ConsensusFirst(model_label, model_confidence, c, any_search_results_found) ==
  IF c.real >= 2 THEN "Real"
  ELSE IF c.fake >= 2 THEN "Fake"
  ELSE IF c.real >= 1 /\ c.fake >= 1 THEN "Uncertain"
  ELSE IF c.fake = 1 /\ model_label = "Real" THEN "Uncertain"
  ELSE IF c.real = 1 /\ model_label = "Fake" THEN "Uncertain"
  ELSE IF c.uncertain > 0 /\ c.real = 0 /\ c.fake = 0 THEN "Uncertain"
  ELSE IF model_confidence < UncertainBelow /\ any_search_results_found
       THEN "Uncertain"
  ELSE IF ~any_search_results_found
       THEN IF model_confidence < NoEvidenceBelow THEN "Uncertain"
            ELSE model_label
  ELSE model_label

\* FinalLogic with the low-confidence rule tested before the consensus rules
FinalLogic_LowConfidenceFirst(model_label, model_confidence, c, any_search_results_found) ==
  IF c.real >= 1 /\ c.fake >= 1 THEN "Uncertain"
  ELSE IF model_confidence < UncertainBelow /\ any_search_results_found
       THEN "Uncertain"
  ELSE IF c.real >= 2 THEN "Real"
  ELSE IF c.fake >= 2 THEN "Fake"
  ELSE IF c.fake = 1 /\ model_label = "Real" THEN "Uncertain"
  ELSE IF c.real = 1 /\ model_label = "Fake" THEN "Uncertain"
  ELSE IF c.uncertain > 0 /\ c.real = 0 /\ c.fake = 0 THEN "Uncertain"
  ELSE IF ~any_search_results_found
       THEN IF model_confidence < NoEvidenceBelow THEN "Uncertain"
            ELSE model_label
  ELSE model_label

\* FinalLogic with one threshold, 0.6, with and without evidence
FinalLogic_OneThreshold(model_label, model_confidence, c, any_search_results_found) ==
  IF c.real >= 1 /\ c.fake >= 1 THEN "Uncertain"
  ELSE IF c.real >= 2 THEN "Real"
  ELSE IF c.fake >= 2 THEN "Fake"
  ELSE IF c.fake = 1 /\ model_label = "Real" THEN "Uncertain"
  ELSE IF c.real = 1 /\ model_label = "Fake" THEN "Uncertain"
  ELSE IF c.uncertain > 0 /\ c.real = 0 /\ c.fake = 0 THEN "Uncertain"
  ELSE IF model_confidence < UncertainBelow THEN "Uncertain"
  ELSE model_label

\* FinalLogic with the low-confidence rule applied only to trusted evidence
FinalLogic_TrustedOnly(model_label, model_confidence, c, any_search_results_found) ==
  IF c.real >= 1 /\ c.fake >= 1 THEN "Uncertain"
  ELSE IF c.real >= 2 THEN "Real"
  ELSE IF c.fake >= 2 THEN "Fake"
  ELSE IF c.fake = 1 /\ model_label = "Real" THEN "Uncertain"
  ELSE IF c.real = 1 /\ model_label = "Fake" THEN "Uncertain"
  ELSE IF c.uncertain > 0 /\ c.real = 0 /\ c.fake = 0 THEN "Uncertain"
  ELSE IF model_confidence < UncertainBelow /\ c.real + c.fake > 0
       THEN "Uncertain"
  ELSE IF ~any_search_results_found
       THEN IF model_confidence < NoEvidenceBelow THEN "Uncertain"
            ELSE model_label
  ELSE model_label

\* the rules after the loop, in the order of the source
FinalLogic(model_label, model_confidence, c, any_search_results_found) ==
  IF c.real >= 1 /\ c.fake >= 1 THEN "Uncertain"
  ELSE IF c.real >= 2 THEN "Real"
  ELSE IF c.fake >= 2 THEN "Fake"
  ELSE IF c.fake = 1 /\ model_label = "Real" THEN "Uncertain"
  ELSE IF c.real = 1 /\ model_label = "Fake" THEN "Uncertain"
  ELSE IF c.uncertain > 0 /\ c.real = 0 /\ c.fake = 0 THEN "Uncertain"
  ELSE IF model_confidence < UncertainBelow /\ any_search_results_found
       THEN "Uncertain"
  ELSE IF ~any_search_results_found
       THEN IF model_confidence < NoEvidenceBelow THEN "Uncertain"
            ELSE model_label
  ELSE model_label

\* the function's frame at its return statement: the three counters and the
\* value returned
decide_final_verdict(model_label, model_confidence, fact_checks, detected_lang) ==
  LET counts == TrustedCounts(ZeroCounts, fact_checks, detected_lang)
  IN  [counts |-> counts,
       verdict |-> FinalLogic(model_label, model_confidence, counts,
                              fact_checks # <<>>)]

----------------------------------------------------------------------------
(* src/utils/fact_check.py: the evidence connectors.  What the remote      *)
(* service answers is the input of each: kind is "ok" (a 2xx answer whose  *)
(* body parses), "http_error" (raise_for_status raises), "request_error"   *)
(* (a network error), "timeout" (httpx.TimeoutException, a RequestError)   *)
(* or "bad_json" (a 2xx answer whose body response.json() cannot parse).   *)
(* A call returns [raised, value]: the exception that leaves it, or "none" *)
(* and the value returned.                                                 *)

Returns(value) == [raised |-> "none", value |-> value]

Raises(exception) == [raised |-> exception, value |-> <<>>]

\* a claim of the fact-check API; claimReview is [has, list]: whether the
\* key is there and the list under it
RawClaim(text, claimReview) == [text |-> text, claimReview |-> claimReview]

RawReview(text, publisher_name, url) ==
  [text |-> text, publisher_name |-> publisher_name, url |-> url]

\* fetch_google_fact_check: the two except clauses name httpx.HTTPStatusError
\* and httpx.RequestError only
fetch_google_fact_check(answer) ==
  CASE answer.kind \in {"http_error", "request_error", "timeout"} -> Returns(<<>>)
    [] answer.kind = "bad_json" -> Raises("JSONDecodeError")
    [] answer.kind = "ok" -> Returns(answer.claims)

\* lines 315-323 for one fc_item: the items it adds
FormatClaim(fc_item) ==
  IF ~fc_item.claimReview.has THEN Returns(<<>>)
  ELSE IF fc_item.claimReview.list = <<>> THEN Raises("IndexError")
  ELSE LET claim_review == fc_item.claimReview.list[1]
       IN  Returns(<< [claim |-> Get(fc_item, "text", <<>>),
                       review_text |-> Get(claim_review, "text", <<>>),
                       publisher |-> Get(claim_review, "publisher_name", <<>>),
                       url |-> Get(claim_review, "url", <<>>)] >>)

\* lines 313-323: the loop over google_results
RECURSIVE FormatGoogle(_)
FormatGoogle(google_results) ==
  IF google_results = <<>> THEN Returns(<<>>)
  ELSE LET first == FormatClaim(Head(google_results))
           rest == FormatGoogle(Tail(google_results))
       IN  IF first.raised # "none" THEN first
           ELSE IF rest.raised # "none" THEN rest
           ELSE Returns(first.value \o rest.value)

\* an article of a news API; source_name stands for article["source"]["name"]
RawArticle(title, description, source_name, url) ==
  [title |-> title, description |-> description, source_name |-> source_name,
   url |-> url]

\* the dict the comprehension builds for one article: article[key] raises
\* KeyError for a key the article does not hold, and copies None
ArticleItem(article) ==
  IF \E key \in {"title", "description", "source_name", "url"} : article[key] = Absent
  THEN Raises("KeyError")
  ELSE Returns(<< [claim |-> article.title, review_text |-> article.description,
                   publisher |-> article.source_name, url |-> article.url] >>)

RECURSIVE ArticleItems(_)
ArticleItems(articles) ==
  IF articles = <<>> THEN Returns(<<>>)
  ELSE LET first == ArticleItem(Head(articles))
           rest == ArticleItems(Tail(articles))
       IN  IF first.raised # "none" THEN first
           ELSE IF rest.raised # "none" THEN rest
           ELSE Returns(first.value \o rest.value)

\* fetch_newsapi_articles
fetch_newsapi_articles(answer) ==
  CASE answer.kind \in {"http_error", "request_error", "timeout"} -> Returns(<<>>)
    [] answer.kind = "bad_json" -> Raises("JSONDecodeError")
    [] answer.kind = "ok" -> ArticleItems(answer.articles)

\* fetch_gnews_articles: the same statements on another URL
fetch_gnews_articles(answer) ==
  CASE answer.kind \in {"http_error", "request_error", "timeout"} -> Returns(<<>>)
    [] answer.kind = "bad_json" -> Raises("JSONDecodeError")
    [] answer.kind = "ok" -> ArticleItems(answer.articles)

\* a div of class "result": each tag is its text, or Absent when find()
\* returns None
RawResult(title, url, snippet) == [title |-> title, url |-> url, snippet |-> snippet]

\* lines 126-142 for one result_div
ScrapedItem(result_div) ==
  LET title == Get(result_div, "title", <<78,111,32,84,105,116,108,101>>)  \* "No Title"
      url == Get(result_div, "url", <<78,111,32,85,82,76>>)  \* "No URL"
      snippet == Get(result_div, "snippet", <<78,111,32,83,110,105,112,112,101,116>>)
        \* "No Snippet"
  IN  IF Contains(url, <<100,117,99,107,100,117,99,107,103,111,46,99,111,109>>)
        \* "duckduckgo.com"
      THEN <<>>
      ELSE << [claim |-> title, review_text |-> snippet,
               publisher |-> <<68,117,99,107,68,117,99,107,71,111,32,83,99,114,97,112,101>>,
                 \* "DuckDuckGo Scrape"
               url |-> url] >>

RECURSIVE ScrapedItems(_)
ScrapedItems(divs) ==
  IF divs = <<>> THEN <<>> ELSE ScrapedItem(Head(divs)) \o ScrapedItems(Tail(divs))

\* scrape_search_results: every exception ends in `return []`; "bad_html"
\* is an answer whose parsing raises
scrape_search_results(answer) ==
  CASE answer.kind \in {"http_error", "request_error", "timeout", "bad_html"} ->
         Returns(<<>>)
    [] answer.kind = "ok" -> Returns(ScrapedItems(answer.results))

----------------------------------------------------------------------------
(* src/utils/fact_check.py: the LLM step of perform_agent_fact_check *)

DefaultConfidence == 500

\* the text starts with word at position p
StartsWithAt(text, p, word) ==
  /\ p + Len(word) - 1 <= Len(text)
  /\ SubSeq(text, p, p + Len(word) - 1) = word

\* \s* from position p on: the first position that holds no whitespace
RECURSIVE SkipSpaces(_, _)
SkipSpaces(text, p) ==
  IF p <= Len(text) /\ IsSpace(text[p]) THEN SkipSpaces(text, p + 1) ELSE p

\* the alternatives of (Real|Fake|Uncertain), lower-cased, in their order
LabelAlternatives ==
  << <<114,101,97,108>>,  \* "real"
     <<102,97,107,101>>,  \* "fake"
     <<117,110,99,101,114,116,97,105,110>> >>  \* "uncertain"

\* re.search(r"Label:\s*(Real|Fake|Uncertain)", pred_text, re.IGNORECASE):
\* group(1) of the leftmost match, <<>> when there is none
LabelMatch(pred_text) ==
  LET low == Lower(pred_text)
      AltAt(q) == {a \in 1..Len(LabelAlternatives) :
                     StartsWithAt(low, q, LabelAlternatives[a])}
      starts == {p \in 1..Len(low) :
                   /\ StartsWithAt(low, p, <<108,97,98,101,108,58>>)  \* "label:"
                   /\ AltAt(SkipSpaces(low, p + 6)) # {}}
  IN  IF starts = {} THEN <<>>
      ELSE LET p == CHOOSE x \in starts : \A y \in starts : x <= y
               q == SkipSpaces(low, p + 6)
               a == CHOOSE x \in AltAt(q) : \A y \in AltAt(q) : x <= y
           IN  SubSeq(pred_text, q, q + Len(LabelAlternatives[a]) - 1)

\* [0-9.]
IsNumChar(c) == (c >= 48 /\ c <= 57) \/ c = 46

\* [0-9.]+ from position q on: the longest run
RECURSIVE NumRun(_, _)
NumRun(text, q) ==
  IF q <= Len(text) /\ IsNumChar(text[q]) THEN <<text[q]>> \o NumRun(text, q + 1)
  ELSE <<>>

\* re.search(r"Confidence:\s*([0-9.]+)", pred_text): group(1) of the leftmost
\* match, <<>> when there is none; the search is case-sensitive
ConfMatch(pred_text) ==
  LET word == <<67,111,110,102,105,100,101,110,99,101,58>>  \* "Confidence:"
      starts == {p \in 1..Len(pred_text) :
                   /\ StartsWithAt(pred_text, p, word)
                   /\ NumRun(pred_text, SkipSpaces(pred_text, p + 11)) # <<>>}
  IN  IF starts = {} THEN <<>>
      ELSE LET p == CHOOSE x \in starts : \A y \in starts : x <= y
           IN  NumRun(pred_text, SkipSpaces(pred_text, p + 11))

\* str.capitalize() of a matched alternative
UpperChar(c) == IF c >= 97 /\ c <= 122 THEN c - 32 ELSE c

Capitalize(s) == IF s = <<>> THEN s ELSE <<UpperChar(s[1])>> \o Lower(Tail(s))

\* the label strings the model names
LabelName(s) ==
  CASE s = <<82,101,97,108>> -> "Real"
    [] s = <<70,97,107,101>> -> "Fake"
    [] s = <<85,110,99,101,114,116,97,105,110>> -> "Uncertain"

\* float(token) of a [0-9.]+ token raises ValueError unless the token holds
\* a digit and at most one point
FloatRaises(token) ==
  \/ Cardinality({i \in 1..Len(token) : token[i] = 46}) > 1
  \/ \A i \in 1..Len(token) : token[i] = 46

RECURSIVE DigitsValue(_)
DigitsValue(s) ==
  IF s = <<>> THEN 0
  ELSE 10 * DigitsValue(SubSeq(s, 1, Len(s) - 1)) + (s[Len(s)] - 48)

\* float(token) in thousandths, for a token with up to three decimals
FloatValue(token) ==
  LET points == {i \in 1..Len(token) : token[i] = 46}
      dot == IF points = {} THEN Len(token) + 1 ELSE CHOOSE i \in points : TRUE
      whole == SubSeq(token, 1, dot - 1)
      decimals == SubSeq(SubSeq(token, dot + 1, Len(token)) \o <<48,48,48>>, 1, 3)
  IN  1000 * DigitsValue(whole) + DigitsValue(decimals)

\* generate_content_async raised (or llm_response.text did)
LLMError == <<-3>>

\* a variant that falls back to both defaults unless both fields were read
Assessment_AllOrNothing(llm_text) ==
  IF llm_text = LLMError
  THEN [label |-> "Uncertain", confidence |-> DefaultConfidence]
  ELSE LET pred_text == Strip(llm_text)
           label_match == LabelMatch(pred_text)
           conf_match == ConfMatch(pred_text)
       IN  IF label_match # <<>> /\ conf_match # <<>> /\ ~FloatRaises(conf_match)
           THEN [label |-> LabelName(Capitalize(label_match)),
                 confidence |-> FloatValue(conf_match)]
           ELSE [label |-> "Uncertain", confidence |-> DefaultConfidence]

\* a variant that takes the assessment from the local classifier
Assessment_FromClassifier(llm_text) ==
  [label |-> label, confidence |-> confidence]

\* lines 388-405: model_label and model_confidence after the try statement
Assessment(llm_text) ==
  IF llm_text = LLMError
  THEN [label |-> "Uncertain", confidence |-> DefaultConfidence]
  ELSE LET pred_text == Strip(llm_text)
           label_match == LabelMatch(pred_text)
           conf_match == ConfMatch(pred_text)
           model_label == IF label_match # <<>>
                          THEN LabelName(Capitalize(label_match))
                          ELSE "Uncertain"
       IN  IF conf_match # <<>> /\ ~FloatRaises(conf_match)
           THEN [label |-> model_label, confidence |-> FloatValue(conf_match)]
           ELSE [label |-> model_label, confidence |-> DefaultConfidence]

\* responses of the model the LLM step is run on
LLMResponses ==
  { LLMError,
    <<76,97,98,101,108,58,32,82,101,97,108,44,32,67,111,110,102,105,100,101,110,99,101,58,32,48,46,57>>,
      \* "Label: Real, Confidence: 0.9"
    <<108,97,98,101,108,58,32,102,97,107,101,44,32,99,111,110,102,105,100,101,110,99,101,58,32,48,46,57>>,
      \* "label: fake, confidence: 0.9"
    <<76,97,98,101,108,58,32,85,110,99,101,114,116,97,105,110>>,
      \* "Label: Uncertain"
    <<67,111,110,102,105,100,101,110,99,101,58,32,48,46,52>>,
      \* "Confidence: 0.4"
    <<76,97,98,101,108,58,32,82,69,65,76,44,32,32,67,111,110,102,105,100,101,110,99,101,58,32,49,46,50,46,51>>,
      \* "Label: REAL,  Confidence: 1.2.3"
    <<76,97,98,101,108,58,32,70,97,107,101,44,32,67,111,110,102,105,100,101,110,99,101,58,32,57,53>>,
      \* "Label: Fake, Confidence: 95"
    <<73,32,99,97,110,110,111,116,32,116,101,108,108,46>>
      \* "I cannot tell."
  }

----------------------------------------------------------------------------
(* src/main.py, src/utils/predictor.py, src/models/loader.py: the steps of *)
(* predict_news before the fact check.                                     *)

\* a request text, as far as the code reads it: whether it holds a code
\* point of the Sinhala block and one of the Tamil block
Texts == [sinhala : BOOLEAN, tamil : BOOLEAN]

\* what langid.classify answers: a language code, or an exception
LangidOutcomes == {"en", "fr", "si", "ta", "raise"}

\* utils.fact_check.detect_language
detect_language(text, classified) ==
  IF classified = "raise" THEN "en"
  ELSE IF text.sinhala THEN "si"
  ELSE IF text.tamil THEN "ta"
  ELSE classified

\* utils.fact_check.map_language_code, on the two-letter codes of langid
map_language_code(code) ==
  IF code = "si" THEN "si"
  ELSE IF code = "ta" THEN "ta"
  ELSE IF code = "en" THEN "en"
  ELSE "en"

\* models.loader: the keys of models
Models == {"si", "en", "ta"}

\* what the classifier computes: the argmax and its probability, rounded
\* to three places
MLOutputs == [pred : {0, 1}, confidence : {987}]

\* utils.predictor.fake_news_predict
fake_news_predict(code, ml) ==
  IF code \notin Models
  THEN [label |-> "Unsupported Language", confidence |-> 0]
  ELSE [label |-> IF ml.pred = 1 THEN "Real" ELSE "Fake",
        confidence |-> ml.confidence]

----------------------------------------------------------------------------
(* src/utils/fact_check.py: perform_agent_fact_check around the awaits *)

PromptSources == 10

SnippetChars == 300

ExplanationSources == 5

ReviewChars == 100

Min(a, b) == IF a < b THEN a ELSE b

\* s[:n]
Take(s, n) == SubSeq(s, 1, Min(n, Len(s)))

\* lines 295, 307, 345: which connectors the language code selects
SourceStrategy(code) ==
  IF code \in {"si", "ta"} THEN "scrape"
  ELSE IF code = "en" THEN "api"
  ELSE "scrape"

\* lines 372-378: fc.get('review_text', 'N/A')[:300] raises TypeError on None
PromptRaises(fact_checks) ==
  \E i \in 1..Min(PromptSources, Len(fact_checks)) :
    fact_checks[i].review_text = None

\* a variant that puts every item into the prompt
PromptDigest_All(fact_checks) ==
  [i \in 1..Len(fact_checks) |->
     [publisher |-> fact_checks[i].publisher,
      snippet |-> Take(fact_checks[i].review_text, SnippetChars),
      url |-> fact_checks[i].url]]

\* lines 372-378: what the prompt holds of the evidence
PromptDigest(fact_checks) ==
  [i \in 1..Min(PromptSources, Len(fact_checks)) |->
     [publisher |-> fact_checks[i].publisher,
      snippet |-> Take(fact_checks[i].review_text, SnippetChars),
      url |-> fact_checks[i].url]]

\* lines 411-416: sources_info
SourcesInfo(fact_checks) ==
  [i \in 1..Min(ExplanationSources, Len(fact_checks)) |->
     [publisher |-> fact_checks[i].publisher,
      review |-> Take(fact_checks[i].review_text, ReviewChars),
      url |-> fact_checks[i].url]]

\* lines 421-426: the dict perform_agent_fact_check returns
AgentResult(final_verdict, model_label, model_confidence, fact_checks) ==
  [final_verdict |-> final_verdict,
   explanation |-> [final_verdict |-> final_verdict, model_label |-> model_label,
                    model_confidence |-> model_confidence,
                    sources_info |-> SourcesInfo(fact_checks)],
   fact_check_status |-> IF fact_checks # <<>> THEN "Found" ELSE "Not found",
   fact_check_sources |-> fact_checks]

NoResult == [final_verdict |-> "none"]

----------------------------------------------------------------------------
(* answers of the remote services the requests are run on *)

Answer(kind) == [kind |-> kind, claims |-> <<>>, articles |-> <<>>, results |-> <<>>]

NoAnswer == [from |-> "none", answer |-> Answer("none")]

\* answers without a 2xx status
HttpFailures == {Answer("request_error"), Answer("timeout"), Answer("http_error")}

\* a 2xx answer whose body is no JSON
BadJson == Answer("bad_json")

GoogleAnswers ==
  HttpFailures \cup {BadJson} \cup
  { Answer("ok"),
    [Answer("ok") EXCEPT !.claims =
       << RawClaim(<<72,111,97,120,58,32,120>>,
                   [has |-> TRUE,
                    list |-> << RawReview(Absent, <<83,110,111,112,101,115>>, <<117>>) >>]) >>],
      \* the claim "Hoax: x" reviewed by "Snopes"
    [Answer("ok") EXCEPT !.claims =
       << RawClaim(<<72,111,97,120,58,32,120>>, [has |-> TRUE, list |-> <<>>]) >>],
      \* a claim whose claimReview list is empty
    [Answer("ok") EXCEPT !.claims =
       << RawClaim(<<72,111,97,120,58,32,120>>, [has |-> FALSE, list |-> <<>>]) >>]
      \* a claim without the key claimReview
  }

\* the number of articles of the longest answer of a news API
MaxArticles == 11

\* a page of MaxArticles articles with the urls "u1", "u2", ...: untrusted
\* ones, "Hoax" / "fake" from "Blog", and as the last one "Verified" /
\* "True" from "Reuters"
ManyArticles ==
  [i \in 1..MaxArticles |->
     IF i < MaxArticles
     THEN RawArticle(<<72,111,97,120>>, <<102,97,107,101>>, <<66,108,111,103>>,
                     <<117, 48 + i>>)
     ELSE RawArticle(<<86,101,114,105,102,105,101,100>>, <<84,114,117,101>>,
                     <<82,101,117,116,101,114,115>>, <<117, 48 + i>>)]

NewsAnswers ==
  HttpFailures \cup {BadJson} \cup
  { Answer("ok"),
    [Answer("ok") EXCEPT !.articles = ManyArticles],
    [Answer("ok") EXCEPT !.articles =
       << RawArticle(<<86,101,114,105,102,105,101,100>>, <<84,114,117,101>>,
                     <<82,101,117,116,101,114,115>>, <<117>>) >>],
      \* "Verified" / "True" from "Reuters"
    [Answer("ok") EXCEPT !.articles =
       << RawArticle(<<72,111,97,120>>, <<102,97,107,101>>, <<66,108,111,103>>, <<117>>) >>],
      \* "Hoax" / "fake" from "Blog"
    [Answer("ok") EXCEPT !.articles =
       << RawArticle(<<72,111,97,120>>, Absent, <<66,108,111,103>>, <<117>>) >>],
      \* an article without the key description
    [Answer("ok") EXCEPT !.articles =
       << RawArticle(<<72,111,97,120>>, None, <<66,108,111,103>>, <<117>>) >>],
      \* an article whose description is null
    [Answer("ok") EXCEPT !.articles =
       << RawArticle(<<72,111,97,120>>, <<102,97,107,101>>, None, <<117>>) >>]
      \* an article whose source name is null
  }

ScrapeAnswers ==
  HttpFailures \cup
  { Answer("bad_html"),
    Answer("ok"),
    [Answer("ok") EXCEPT !.results =
       << RawResult(<<3510,3548,3515,3540>>, <<97,46,108,107,47,49>>,
                    <<2986,3018,2991,3021>>) >>],
      \* a result titled with the Sinhala fake keyword U+0DB6 U+0DDC U+0DBB
      \* U+0DD4, its snippet the Tamil fake keyword U+0BAA U+0BCA U+0BAF
      \* U+0BCD, at "a.lk/1"
    [Answer("ok") EXCEPT !.results =
       << RawResult(Absent, <<47,47,100,117,99,107,100,117,99,107,103,111,46,99,111,109,47,121,46,106,115>>, Absent),
          RawResult(Absent, Absent, Absent) >>]
      \* a link to "//duckduckgo.com/y.js" and a result without tags
  }

----------------------------------------------------------------------------
(* src/utils/logger.py: log_prediction.  The file is a sequence of lines;  *)
(* a data line names the request whose log_entry it holds.  The function   *)
(* does not await, so two requests of one worker never run it at the same  *)
(* time; requests of different worker processes do.  The header and the    *)
(* row stay in the file object's buffer until the with statement closes    *)
(* the file, and reach the file in one append.                             *)

MaxRequests == 2

NumWriters == 3

NumWorkers == 2

Writers == 1..NumWriters

\* the worker process that serves the request writer w logs
WorkerOf(w) == ((w - 1) % NumWorkers) + 1

Header == [kind |-> "header", req |-> 0]

Row(req) == [kind |-> "row", req |-> req]

\* a variant that loses the row of a request that finds the file
Buffered_RowOnlyWithHeader(file_exists, req) ==
  IF file_exists THEN <<>> ELSE <<Header, Row(req)>>

\* what the buffer holds when the file is closed
Buffered(file_exists, req) ==
  (IF file_exists THEN <<>> ELSE <<Header>>) \o <<Row(req)>>

\* no other request of w's worker is inside log_prediction
MayRun(w) ==
  \A v \in Writers \ {w} :
    WorkerOf(v) = WorkerOf(w) => w_pc[v] \notin {"open", "write"}

\* file_exists = os.path.isfile(LOG_FILE)
LogCheck(w) ==
  /\ w_pc[w] = "check"
  /\ MayRun(w)
  /\ w_file_exists' = [w_file_exists EXCEPT ![w] = log_on_disk]
  /\ w_pc' = [w_pc EXCEPT ![w] = "open"]
  /\ UNCHANGED <<log_file, log_on_disk, w_req, reqVars, verdictVars>>

\* open(LOG_FILE, mode="a") creates the file when there is none
LogOpen(w) ==
  /\ w_pc[w] = "open"
  /\ log_on_disk' = TRUE
  /\ w_pc' = [w_pc EXCEPT ![w] = "write"]
  /\ UNCHANGED <<log_file, w_file_exists, w_req, reqVars, verdictVars>>

\* open raises OSError (the file cannot be written)
LogOpenFails(w) ==
  /\ w_pc[w] = "open"
  /\ w_pc' = [w_pc EXCEPT ![w] = "failed"]
  /\ UNCHANGED <<log_file, log_on_disk, w_file_exists, w_req, reqVars, verdictVars>>

\* writeheader() unless file_exists, writerow(entry), and the close
LogWrite(w) ==
  /\ w_pc[w] = "write"
  /\ log_file' = log_file \o Buffered(w_file_exists[w], w_req[w])
  /\ w_pc' = [w_pc EXCEPT ![w] = "done"]
  /\ UNCHANGED <<log_on_disk, w_file_exists, w_req, reqVars, verdictVars>>

----------------------------------------------------------------------------
(* src/main.py: predict_news, one request at a time on worker 1.  A step   *)
(* runs from one await to the next.                                        *)

\* the except clause of predict_news
ErrorPayload(exception) == [kind |-> "error", error |-> exception]

\* the dict predict_news returns
VerdictPayload(result) ==
  [kind |-> "verdict",
   detected_language |-> lang_detected,
   model_language_used |-> lang_code,
   ml_prediction |-> label,
   confidence |-> confidence,
   fact_check_status |-> result.fact_check_status,
   fact_check_sources |-> result.fact_check_sources,
   final_verdict |-> result.final_verdict,
   agent_explanation |-> result.explanation]

\* log_entry, without its timestamp
LogEntry(result) ==
  [text |-> news_text,
   detected_language |-> lang_detected,
   model_language_used |-> lang_code,
   model_prediction |-> label,
   model_confidence |-> confidence,
   fact_check_status |-> result.fact_check_status,
   final_verdict |-> result.final_verdict]

NoEntry == [final_verdict |-> "none"]

\* an exception reaches the except clause of predict_news
Except(exception) ==
  /\ response' = ErrorPayload(exception)
  /\ pc' = "done"

\* lines 27-39 and perform_agent_fact_check up to its first await
Predict ==
  /\ pc \in {"idle", "done"}
  /\ req_no < MaxRequests
  /\ \E t \in Texts, classified \in LangidOutcomes, ml \in MLOutputs :
       LET detected == detect_language(t, classified)
           code == map_language_code(detected)
           prediction == fake_news_predict(code, ml)
       IN  /\ news_text' = t
           /\ lang_detected' = detected
           /\ lang_code' = code
           /\ label' = prediction.label
           /\ confidence' = prediction.confidence
           /\ pc' = IF SourceStrategy(code) = "api" THEN "google" ELSE "scrape"
           /\ calls' = IF SourceStrategy(code) = "api" THEN <<"google">>
                       ELSE <<"scrape">>
  /\ req_no' = req_no + 1
  /\ fact_checks_formatted' = <<>>
  /\ newsapi_results' = <<>>
  /\ received' = NoAnswer
  /\ source_synthesis_prompt' = <<>>
  /\ llm_response' = <<>>
  /\ a_model_label' = "Uncertain"
  /\ a_model_confidence' = DefaultConfidence
  /\ agent_fact_check_result' = NoResult
  /\ log_entry' = NoEntry
  /\ response' = [kind |-> "none"]
  /\ UNCHANGED <<logVars, verdictVars>>

\* lines 312-326: fetch_google_fact_check returns, its claims are formatted,
\* fetch_newsapi_articles is called
GoogleReturns ==
  /\ pc = "google"
  /\ \E answer \in GoogleAnswers :
       LET fetched == fetch_google_fact_check(answer)
           formatted == IF fetched.raised = "none" THEN FormatGoogle(fetched.value)
                        ELSE fetched
       IN  /\ received' = [from |-> "google", answer |-> answer]
           /\ IF formatted.raised # "none"
              THEN /\ Except(formatted.raised)
                   /\ UNCHANGED <<fact_checks_formatted, calls>>
              ELSE /\ fact_checks_formatted' = fact_checks_formatted \o formatted.value
                   /\ calls' = Append(calls, "newsapi")
                   /\ pc' = "newsapi"
                   /\ UNCHANGED response
  /\ UNCHANGED <<req_no, news_text, lang_detected, lang_code, label, confidence,
                 newsapi_results, source_synthesis_prompt, llm_response,
                 a_model_label, a_model_confidence, agent_fact_check_result,
                 log_entry, logVars, verdictVars>>

\* lines 326-327: fetch_newsapi_articles returns, fetch_gnews_articles is
\* called
NewsApiReturns ==
  /\ pc = "newsapi"
  /\ \E answer \in NewsAnswers :
       LET fetched == fetch_newsapi_articles(answer)
       IN  /\ received' = [from |-> "newsapi", answer |-> answer]
           /\ IF fetched.raised # "none"
              THEN /\ Except(fetched.raised)
                   /\ UNCHANGED <<newsapi_results, calls>>
              ELSE /\ newsapi_results' = fetched.value
                   /\ calls' = Append(calls, "gnews")
                   /\ pc' = "gnews"
                   /\ UNCHANGED response
  /\ UNCHANGED <<req_no, news_text, lang_detected, lang_code, label, confidence,
                 fact_checks_formatted, source_synthesis_prompt, llm_response,
                 a_model_label, a_model_confidence, agent_fact_check_result,
                 log_entry, logVars, verdictVars>>

\* lines 358-391 after the evidence is gathered: the prompt is built and
\* generate_content_async is called
CallLLM(fact_checks) ==
  IF PromptRaises(fact_checks)
  THEN /\ Except("TypeError")
       /\ UNCHANGED <<source_synthesis_prompt, calls>>
  ELSE /\ source_synthesis_prompt' = PromptDigest(fact_checks)
       /\ calls' = Append(calls, "llm")
       /\ pc' = "llm"
       /\ UNCHANGED response

\* lines 327-391: fetch_gnews_articles returns, the articles join the
\* evidence, the prompt is built, the LLM is called
GNewsReturns ==
  /\ pc = "gnews"
  /\ \E answer \in NewsAnswers :
       LET fetched == fetch_gnews_articles(answer)
           gathered == fact_checks_formatted \o newsapi_results \o fetched.value
       IN  /\ received' = [from |-> "gnews", answer |-> answer]
           /\ IF fetched.raised # "none"
              THEN /\ Except(fetched.raised)
                   /\ UNCHANGED <<fact_checks_formatted, source_synthesis_prompt, calls>>
              ELSE /\ fact_checks_formatted' = gathered
                   /\ CallLLM(gathered)
  /\ UNCHANGED <<req_no, news_text, lang_detected, lang_code, label, confidence,
                 newsapi_results, llm_response, a_model_label, a_model_confidence,
                 agent_fact_check_result, log_entry, logVars, verdictVars>>

\* lines 299-305 (or 349-355) and 358-391: scrape_search_results returns,
\* the prompt is built, the LLM is called
ScrapeReturns ==
  /\ pc = "scrape"
  /\ \E answer \in ScrapeAnswers :
       LET scraped == scrape_search_results(answer)
           gathered == fact_checks_formatted \o scraped.value
       IN  /\ received' = [from |-> "scrape", answer |-> answer]
           /\ fact_checks_formatted' = gathered
           /\ CallLLM(gathered)
  /\ UNCHANGED <<req_no, news_text, lang_detected, lang_code, label, confidence,
                 newsapi_results, llm_response, a_model_label, a_model_confidence,
                 agent_fact_check_result, log_entry, logVars, verdictVars>>

\* the exception decide_final_verdict raises on the first item that holds
\* None
DecideException(fact_checks) ==
  LET i == CHOOSE k \in 1..Len(fact_checks) :
             /\ ReviewRaises(fact_checks[k])
             /\ \A j \in 1..(k - 1) : ~ReviewRaises(fact_checks[j])
  IN  IF fact_checks[i].review_text = None \/ fact_checks[i].claim = None
      THEN "TypeError" ELSE "AttributeError"

\* lines 391-426 and main.py 41-58: the LLM answers (or the call raises),
\* the assessment is read, decide_final_verdict runs, the result is
\* formatted, predict_news builds log_entry and calls log_prediction
LLMReturns ==
  /\ pc = "llm"
  /\ \E answer \in LLMResponses :
       LET assessed == Assessment(answer)
           frame == decide_final_verdict(assessed.label, assessed.confidence,
                                         fact_checks_formatted, lang_code)
           result == AgentResult(frame.verdict, assessed.label,
                                 assessed.confidence, fact_checks_formatted)
       IN  /\ llm_response' = answer
           /\ a_model_label' = assessed.label
           /\ a_model_confidence' = assessed.confidence
           /\ calls' = Append(calls, "decide")
           /\ IF DecideRaises(fact_checks_formatted)
              THEN /\ Except(DecideException(fact_checks_formatted))
                   /\ UNCHANGED <<agent_fact_check_result, log_entry, w_pc, w_req>>
              ELSE /\ agent_fact_check_result' = result
                   /\ log_entry' = LogEntry(result)
                   /\ w_pc' = [w_pc EXCEPT ![1] = "check"]
                   /\ w_req' = [w_req EXCEPT ![1] = req_no]
                   /\ pc' = "log"
                   /\ UNCHANGED response
  /\ received' = NoAnswer
  /\ UNCHANGED <<req_no, news_text, lang_detected, lang_code, label, confidence,
                 fact_checks_formatted, newsapi_results, source_synthesis_prompt,
                 log_file, log_on_disk, w_file_exists, verdictVars>>

\* main.py 60-70: log_prediction has returned, the payload is returned
Respond ==
  /\ pc = "log"
  /\ w_pc[1] = "done"
  /\ response' = VerdictPayload(agent_fact_check_result)
  /\ pc' = "done"
  /\ w_pc' = [w_pc EXCEPT ![1] = "idle"]
  /\ UNCHANGED <<req_no, news_text, lang_detected, lang_code, label, confidence,
                 fact_checks_formatted, newsapi_results, calls, received,
                 source_synthesis_prompt, llm_response, a_model_label,
                 a_model_confidence, agent_fact_check_result, log_entry,
                 log_file, log_on_disk, w_file_exists, w_req, verdictVars>>

\* main.py 72-74: log_prediction has raised
LogRaised ==
  /\ pc = "log"
  /\ w_pc[1] = "failed"
  /\ Except("OSError")
  /\ w_pc' = [w_pc EXCEPT ![1] = "idle"]
  /\ UNCHANGED <<req_no, news_text, lang_detected, lang_code, label, confidence,
                 fact_checks_formatted, newsapi_results, calls, received,
                 source_synthesis_prompt, llm_response, a_model_label,
                 a_model_confidence, agent_fact_check_result, log_entry,
                 log_file, log_on_disk, w_file_exists, w_req, verdictVars>>

----------------------------------------------------------------------------
(* the specifications *)

InitRequests ==
  /\ pc = "idle"
  /\ req_no = 0
  /\ news_text = [sinhala |-> FALSE, tamil |-> FALSE]
  /\ lang_detected = "en"
  /\ lang_code = "en"
  /\ label = "Fake"
  /\ confidence = 0
  /\ fact_checks_formatted = <<>>
  /\ newsapi_results = <<>>
  /\ calls = <<>>
  /\ received = NoAnswer
  /\ source_synthesis_prompt = <<>>
  /\ llm_response = <<>>
  /\ a_model_label = "Uncertain"
  /\ a_model_confidence = DefaultConfidence
  /\ agent_fact_check_result = NoResult
  /\ log_entry = NoEntry
  /\ response = [kind |-> "none"]

\* no log file yet
InitLogFile ==
  /\ log_file = <<>>
  /\ log_on_disk = FALSE
  /\ w_file_exists = [w \in Writers |-> FALSE]

InitNoCall ==
  /\ d_pc = "idle"
  /\ d_model_label = "Uncertain"
  /\ d_model_confidence = DefaultConfidence
  /\ d_fact_checks = <<>>
  /\ d_detected_lang = "en"
  /\ d_counts = ZeroCounts
  /\ d_verdict = "none"

\* the service after start-up: no request yet, no log file
Init ==
  /\ InitRequests
  /\ InitLogFile
  /\ w_pc = [w \in Writers |-> "idle"]
  /\ w_req = [w \in Writers |-> 0]
  /\ InitNoCall

Next ==
  \/ Predict
  \/ GoogleReturns
  \/ NewsApiReturns
  \/ GNewsReturns
  \/ ScrapeReturns
  \/ LLMReturns
  \/ \E w \in Writers : LogCheck(w)
  \/ \E w \in Writers : LogOpen(w)
  \/ \E w \in Writers : LogOpenFails(w)
  \/ \E w \in Writers : LogWrite(w)
  \/ Respond
  \/ LogRaised

Spec == Init /\ [][Next]_vars

\* NumWriters requests, spread over the workers, have each reached their
\* call of log_prediction; there is no log file yet
InitLog ==
  /\ InitRequests
  /\ InitLogFile
  /\ w_pc = [w \in Writers |-> "check"]
  /\ w_req = [w \in Writers |-> w]
  /\ InitNoCall

NextLog ==
  \/ \E w \in Writers : LogCheck(w)
  \/ \E w \in Writers : LogOpen(w)
  \/ \E w \in Writers : LogOpenFails(w)
  \/ \E w \in Writers : LogWrite(w)

SpecLog == InitLog /\ [][NextLog]_vars

----------------------------------------------------------------------------
(* decide_final_verdict called on its own: Init draws the arguments, the   *)
(* one action runs the function to its return statement.                   *)

MaxEvidence == 3

Review(claim, review_text, publisher) ==
  [claim |-> claim, review_text |-> review_text, publisher |-> publisher,
   url |-> <<>>]

\* evidence items the arguments are drawn from
VerdictReviews ==
  { Review(<<>>, <<84,114,117,101>>, <<66,66,67>>),
      \* "True" from "BBC": trusted, real
    Review(<<120>>, <<84,114,117,101,44,32,110,111,119,32,70,65,76,83,69>>,
           <<32,82,101,117,116,101,114,115,32>>),
      \* "True, now FALSE" about "x" from " Reuters ": trusted after strip(),
      \* a real and a fake keyword after lower()
    Review(<<>>, <<117,110,112,114,111,118,101,110>>, <<66,66,67>>),
      \* "unproven" from "BBC": trusted, uncertain
    Review(<<84,114,117,101>>, Absent, <<98,98,99>>),
      \* claim "True" from "bbc", the dict holds no review_text: real, but
      \* "bbc" is not on the list
    Review(<<2953,2979,3021,2990,3016,2991,2994,3021,2994>>,
           <<3523,3501,3530,8205,3514>>, <<65,100,97,32,68,101,114,97,110,97>>),
      \* from "Ada Derana": the review is the Sinhala real keyword
      \* U+0DC3 U+0DAD U+0DCA U+200D U+0DBA, the claim the Tamil fake keyword
      \* U+0B89 U+0BA3 U+0BCD U+0BAE U+0BC8 U+0BAF U+0BB2 U+0BCD U+0BB2, which
      \* holds the Tamil real keyword U+0B89 U+0BA3 U+0BCD U+0BAE U+0BC8
    Review(<<2953,2979,3021,2990,3016>>, <<3510,3548,3515,3540>>,
           <<68,105,110,97,109,97,108,97,114>>)
      \* from "Dinamalar": the review is the Sinhala fake keyword
      \* U+0DB6 U+0DDC U+0DBB U+0DD4, the claim the Tamil real keyword
      \* U+0B89 U+0BA3 U+0BCD U+0BAE U+0BC8
  }

RECURSIVE SeqsUpTo(_, _)
SeqsUpTo(S, n) ==
  IF n = 0 THEN {<<>>}
  ELSE LET shorter == SeqsUpTo(S, n - 1)
       IN  shorter \cup {Append(s, x) : s \in shorter, x \in S}

VerdictLabels == {"Real", "Fake", "Uncertain"}

VerdictConfidences == {400, 600, 750, 800, 850}

VerdictLangs == {"en", "si", "ta", "fr"}

InitVerdict ==
  /\ InitRequests
  /\ InitLogFile
  /\ w_pc = [w \in Writers |-> "idle"]
  /\ w_req = [w \in Writers |-> 0]
  /\ d_pc = "call"
  /\ d_model_label \in VerdictLabels
  /\ d_model_confidence \in VerdictConfidences
  /\ d_fact_checks \in SeqsUpTo(VerdictReviews, MaxEvidence)
  /\ d_detected_lang \in VerdictLangs
  /\ d_counts = ZeroCounts
  /\ d_verdict = "none"

\* decide_final_verdict runs from its first line to a return
DecideFinalVerdict ==
  /\ d_pc = "call"
  /\ d_pc' = "returned"
  /\ LET frame == decide_final_verdict(d_model_label, d_model_confidence,
                                       d_fact_checks, d_detected_lang)
     IN  /\ d_counts' = frame.counts
         /\ d_verdict' = frame.verdict
  /\ UNCHANGED <<d_model_label, d_model_confidence, d_fact_checks,
                 d_detected_lang, reqVars, logVars>>

NextVerdict == DecideFinalVerdict

SpecVerdict == InitVerdict /\ [][NextVerdict]_vars

----------------------------------------------------------------------------
(* Properties of decide_final_verdict, checked under SpecVerdict *)

Returned == d_pc = "returned"

\* C1 (conflict dominance): whenever the call has counted at least one trusted
\* Real-stance item and at least one trusted Fake-stance item, it returns
\* Uncertain, whatever the label, the confidence, the trusted-uncertain count
\* and the other items are.
ConflictDominance ==
  (Returned /\ d_counts.real >= 1 /\ d_counts.fake >= 1) => d_verdict = "Uncertain"

\* a call with a trusted real, a trusted fake and a trusted uncertain item, a
\* confident Real label, has returned Uncertain
ConflictDominanceWitness ==
  /\ Returned
  /\ d_counts.real >= 1 /\ d_counts.fake >= 1 /\ d_counts.uncertain >= 1
  /\ d_model_label = "Real" /\ d_model_confidence = 850
  /\ d_verdict = "Uncertain"

\* C2 (consensus override): two or more trusted Real items and no trusted Fake
\* item give Real, two or more trusted Fake items and no trusted Real item
\* give Fake, whatever the label and the confidence are.
ConsensusOverride ==
  /\ (Returned /\ d_counts.real >= 2 /\ d_counts.fake = 0) => d_verdict = "Real"
  /\ (Returned /\ d_counts.fake >= 2 /\ d_counts.real = 0) => d_verdict = "Fake"

\* a call with two trusted real items, the label Fake and a confidence below
\* 0.6 has returned Real
ConsensusOverrideWitness ==
  /\ Returned
  /\ d_counts.real >= 2 /\ d_counts.fake = 0
  /\ d_model_label = "Fake" /\ d_model_confidence < UncertainBelow
  /\ d_verdict = "Real"

\* C3 (no-evidence conservatism): with an empty evidence list the verdict is
\* Uncertain below 0.8 and the model's label from 0.8 on; (Real, 0.75) gives
\* Uncertain and (Real, 0.85) gives Real.
NoEvidenceConservatism ==
  (Returned /\ d_fact_checks = <<>>) =>
    /\ d_model_confidence < 800 => d_verdict = "Uncertain"
    /\ d_model_confidence >= 800 => d_verdict = d_model_label
    /\ (d_model_label = "Real" /\ d_model_confidence = 750) => d_verdict = "Uncertain"
    /\ (d_model_label = "Real" /\ d_model_confidence = 850) => d_verdict = "Real"

\* a call with no evidence, (Real, 0.75), has returned Uncertain
NoEvidenceConservatismWitness ==
  /\ Returned
  /\ d_fact_checks = <<>>
  /\ d_model_label = "Real" /\ d_model_confidence = 750
  /\ d_verdict = "Uncertain"

\* C4 as stated (low confidence with evidence): any non-empty evidence list
\* and a confidence of 0.4 give Uncertain.
LowConfidenceAlwaysUncertain ==
  (Returned /\ d_fact_checks # <<>> /\ d_model_confidence = 400) =>
    d_verdict = "Uncertain"

\* C4 as amended: any non-empty evidence list and a confidence of 0.4 give
\* Uncertain unless the trusted items agree (two or more trusted Real and no
\* trusted Fake, or two or more trusted Fake and no trusted Real); then the
\* verdict is what they agree on.
LowConfidenceWithEvidence ==
  (Returned /\ d_fact_checks # <<>> /\ d_model_confidence = 400) =>
    IF d_counts.real >= 2 /\ d_counts.fake = 0 THEN d_verdict = "Real"
    ELSE IF d_counts.fake >= 2 /\ d_counts.real = 0 THEN d_verdict = "Fake"
    ELSE d_verdict = "Uncertain"

\* a call with evidence, no trusted count above zero, (Real, 0.4), has
\* returned Uncertain
LowConfidenceWithEvidenceWitness ==
  /\ Returned
  /\ d_fact_checks # <<>>
  /\ d_counts = ZeroCounts
  /\ d_model_label = "Real" /\ d_model_confidence = 400
  /\ d_verdict = "Uncertain"

\* the categories in the order the specification tests them
StanceOrder == <<"fake", "real", "uncertain">>

\* the stance of an item as the specification defines it: the first category,
\* in the order fake, real, uncertain, one of whose keywords the lower-cased
\* "review_text claim" contains; the English table for a language without one
StanceBySpec(review, lang) ==
  LET table == VERDICT_KEYWORDS(IF lang \in {"en", "si", "ta"} THEN lang ELSE "en")
      hits == {k \in 1..3 : AnyIn(table[StanceOrder[k]], ReviewText(review))}
  IN  IF hits = {} THEN "unknown"
      ELSE StanceOrder[CHOOSE k \in hits : \A h \in hits : k <= h]

\* C5 (keyword precedence): each counter is the number of trusted items whose
\* stance, decided in the order fake, real, uncertain, is that category; so an
\* item with a fake and a real keyword counts as Fake, an item with no keyword
\* changes no counter, and a language without a table uses the English one.
KeywordPrecedence ==
  Returned =>
    LET stances == {<<i, StanceBySpec(d_fact_checks[i], d_detected_lang)>> :
                      i \in {k \in 1..Len(d_fact_checks) : IsTrusted(d_fact_checks[k])}}
    IN  \A cat \in {"fake", "real", "uncertain"} :
          d_counts[cat] = Cardinality({p \in stances : p[2] = cat})

\* a call under a language without a table ("fr"), with a trusted item whose
\* text holds an English fake and an English real keyword, has counted it as
\* fake and nothing as real
KeywordPrecedenceWitness ==
  /\ Returned
  /\ d_detected_lang = "fr"
  /\ \E i \in 1..Len(d_fact_checks) :
       /\ IsTrusted(d_fact_checks[i])
       /\ AnyIn(Keywords_en_fake, ReviewText(d_fact_checks[i]))
       /\ AnyIn(Keywords_en_real, ReviewText(d_fact_checks[i]))
  /\ d_counts.fake = 1 /\ d_counts.real = 0

----------------------------------------------------------------------------
(* the request path: connectors, the LLM step, the response and the log *)

\* how often x is in the sequence s
Count(s, x) == Cardinality({i \in DOMAIN s : s[i] = x})

\* the data records of request req in the log
RowsOf(req) == Count(log_file, Row(req))

\* the LLM step of the request has run
LLMStepDone == calls # <<>> /\ calls[Len(calls)] = "decide"

\* the answer is one of the failures: no 2xx answer, an unparsable body, an
\* article without one of its fields, or an empty claimReview list
ConnectorFailed(answer) ==
  \/ answer.kind # "ok"
  \/ \E i \in DOMAIN answer.articles :
       \E key \in {"title", "description", "source_name", "url"} :
         answer.articles[i][key] = Absent
  \/ \E i \in DOMAIN answer.claims :
       /\ answer.claims[i].claimReview.has
       /\ answer.claims[i].claimReview.list = <<>>

\* C6: when the answer a connector received is a failure -- a network
\* error, a non-2xx status, a timeout, an unparsable body, a record that
\* lacks a field, an empty claimReview list -- the request goes on to the
\* next step and its response is not the error payload.
ConnectorFailureDegrades ==
  (received.from # "none" /\ ConnectorFailed(received.answer)) =>
    /\ response.kind # "error"
    /\ pc # "done"

\* the response of the LLM lacks a label token, a confidence token, or its
\* confidence token is no decimal
Malformed(llm_text) ==
  /\ llm_text # LLMError
  /\ \/ LabelMatch(Strip(llm_text)) = <<>>
     \/ ConfMatch(Strip(llm_text)) = <<>>
     \/ FloatRaises(ConfMatch(Strip(llm_text)))

FailClosed ==
  /\ [](/\ pc = "done" => response.kind \in {"verdict", "error"}
        /\ response.kind = "verdict" =>
             /\ response.final_verdict \in {"Real", "Fake", "Uncertain"}
             /\ response.final_verdict = log_entry.final_verdict
             /\ RowsOf(req_no) = 1
        /\ response.kind = "error" =>
             /\ DOMAIN response = {"kind", "error"}
             /\ RowsOf(req_no) = 0)
  /\ [][(response'.kind = "verdict" /\ response.kind # "verdict") =>
          /\ RowsOf(req_no) = 1
          /\ log_file' = log_file]_vars

\* the second request fails after the first one was answered and logged
FailClosedWitness ==
  /\ req_no = 2
  /\ response.kind = "error"
  /\ log_file = <<Header, Row(1)>>

\* C9: in the English flow the fact-check API, NewsAPI and GNews are each
\* invoked exactly once per request whatever the others returned, and the
\* LLM is called only after all three; for every other code only the
\* web-search scrape is invoked.
FanOutNotFallback ==
  /\ \A i \in DOMAIN calls :
       (calls[i] = "llm" /\ SourceStrategy(lang_code) = "api") =>
         {"google", "newsapi", "gnews"} \subseteq {calls[j] : j \in 1..(i - 1)}
  /\ (pc = "done" /\ SourceStrategy(lang_code) = "api") =>
       /\ Count(calls, "google") = 1
       /\ Count(calls, "newsapi") = 1
       /\ Count(calls, "gnews") = 1
       /\ Count(calls, "scrape") = 0
  /\ (pc = "done" /\ SourceStrategy(lang_code) # "api") =>
       /\ Count(calls, "scrape") = 1
       /\ Count(calls, "google") + Count(calls, "newsapi") + Count(calls, "gnews") = 0

----------------------------------------------------------------------------
(* the log under concurrent requests *)

\* C10: starting without a log file, once the concurrent requests have all
\* logged, the log is one header row followed by one data record per
\* request; no header row is ever written a second time.
AppendSafeLog ==
  /\ Count(log_file, Header) <= 1
  /\ (\A w \in Writers : w_pc[w] = "done") =>
       /\ Len(log_file) = NumWriters + 1
       /\ log_file[1] = Header
       /\ \A w \in Writers : RowsOf(w_req[w]) = 1

----------------------------------------------------------------------------
(* the confidence of the secondary assessment *)

\* C11: in every request, for every response of the LLM, the confidence
\* that perform_agent_fact_check passes to decide_final_verdict and reports
\* in the explanation lies in [0.0, 1.0] (0..1000 thousandths): a number out
\* of range in the response never reaches decide_final_verdict.
ConfidenceInRange ==
  /\ LLMStepDone =>
       (a_model_confidence >= 0 /\ a_model_confidence <= 1000)
  /\ response.kind = "verdict" =>
       /\ response.agent_explanation.model_confidence >= 0
       /\ response.agent_explanation.model_confidence <= 1000

----------------------------------------------------------------------------
(* truncation of the evidence *)

\* perform_agent_fact_check has built its result
ResultBuilt == agent_fact_check_result # NoResult

\* the trusted items among the first k that take the stance
StanceCount(k, stance) ==
  Cardinality({i \in 1..k :
                 /\ i <= Len(fact_checks_formatted)
                 /\ IsTrusted(fact_checks_formatted[i])
                 /\ VeracityFound(ReviewText(fact_checks_formatted[i]),
                                  CurrentKeywords(lang_code)) = stance})

\* the trusted counts of the first k items
CountsOver(k) ==
  [real |-> StanceCount(k, "real"), fake |-> StanceCount(k, "fake"),
   uncertain |-> StanceCount(k, "uncertain")]

----------------------------------------------------------------------------
(* the local classifier and the verdict *)

\* what perform_agent_fact_check returns, written as a function of the
\* mapped language code, the gathered connector results and the response
\* of the LLM alone
SourceBasedResult(code, fact_checks, llm_text) ==
  LET pred_text == Strip(llm_text)
      label_match == LabelMatch(pred_text)
      conf_match == ConfMatch(pred_text)
      source_label == IF llm_text = LLMError \/ label_match = <<>> THEN "Uncertain"
                      ELSE LabelName(Capitalize(label_match))
      source_confidence ==
        IF llm_text = LLMError \/ conf_match = <<>> \/ FloatRaises(conf_match)
        THEN DefaultConfidence
        ELSE FloatValue(conf_match)
      frame == decide_final_verdict(source_label, source_confidence, fact_checks, code)
  IN  AgentResult(frame.verdict, source_label, source_confidence, fact_checks)

\* C13: final_verdict, fact_check_status and the explanation of a request
\* are a function of its mapped language code, its connector results and
\* the response of the LLM, so two requests that agree on these and differ
\* in the output of the local classifier get the same three values; the
\* label and the confidence of the classifier appear in the fields
\* ml_prediction and confidence of the response and in the log record only.
ClassifierIndependence ==
  /\ ResultBuilt =>
       /\ agent_fact_check_result =
            SourceBasedResult(lang_code, fact_checks_formatted, llm_response)
       /\ log_entry.model_prediction = label
       /\ log_entry.model_confidence = confidence
       /\ log_entry.final_verdict = agent_fact_check_result.final_verdict
       /\ log_entry.fact_check_status = agent_fact_check_result.fact_check_status
  /\ response.kind = "verdict" =>
       /\ response.final_verdict = agent_fact_check_result.final_verdict
       /\ response.fact_check_status = agent_fact_check_result.fact_check_status
       /\ response.agent_explanation = agent_fact_check_result.explanation
       /\ response.fact_check_sources = fact_checks_formatted
       /\ response.ml_prediction = label
       /\ response.confidence = confidence

\* the classifier said Fake with a confidence above every threshold, the
\* sources and the LLM said Real, and the verdict is Real
ClassifierIndependenceWitness ==
  /\ response.kind = "verdict"
  /\ response.ml_prediction = "Fake"
  /\ response.confidence >= NoEvidenceBelow
  /\ response.agent_explanation.model_label = "Real"
  /\ response.final_verdict = "Real"

====
